---- MODULE Spec2Model ----
(***************************************************************************)
(* A model of the stock/sales web server of src/main.py: the inventory     *)
(* ledger (post_goods, get_stock, get_stocks, sell_goods, get_sales,       *)
(* delete_goods) over a SQLite store reached through SQLModel sessions,    *)
(* and the digest authenticator (auth).                                    *)
(*                                                                         *)
(* Scheduling.  Every handler is an `async def` run by the single event    *)
(* loop that uvicorn.run(app) starts.  post_goods and sell_goods suspend   *)
(* once, at `await request.json()`; everything after it, the whole         *)
(* `with Session(engine)` block included, runs without a suspension point. *)
(* The model keeps the coroutine that holds the loop in `running`; a crash *)
(* of the process may still fall between any two store statements.         *)
(*                                                                         *)
(* Numbers.  Money is counted in halves (h = 2 * value), a domain on which *)
(* float addition and multiplication are exact.                            *)
(***************************************************************************)
EXTENDS Integers, Sequences, FiniteSets, TLC

\* ------------------------------------------------------------------ bounds

\* The largest quantity of one good the requests may build up.
MaxStock == 2

\* The largest total of sales, in halves, the requests may build up.
MaxSalesH == 3

\* The good names of the requests, in ascending (alphabetical) order.
NameSeq == <<"a", "b">>

Names == {NameSeq[i] : i \in 1..Len(NameSeq)}

\* The requests in flight at one time: one slot per connection.
Slots == {"c1", "c2"}

\* No slot: the loop is free, the write lock is not held.
None == "none"

\* ------------------------------------------------------------- JSON values

\* A decoded JSON value: k is its Python type, v the integer (int), the
\* number of halves (float) or the length (str); null carries nothing.
JInt(n) == [k |-> "int", v |-> n]

JFloat(h) == [k |-> "float", v |-> h]

JStr(len) == [k |-> "str", v |-> len]

JNull == [k |-> "null", v |-> 0]

\* Python truthiness of a decoded value: None, 0, 0.0 and "" are falsy.
Truthy(j) == j.k # "null" /\ j.v # 0

\* isinstance(j, int)
IsInt(j) == j.k = "int"

\* isinstance(j, (int, float))
IsNum(j) == j.k \in {"int", "float"}

\* The value of a number in halves.
Halves(j) == IF j.k = "int" THEN 2 * j.v ELSE j.v

\* dict.get(key, default) on a decoded payload p; dict.get(key) is
\* Get(p, key, JNull).
Get(p, key, default) == IF key \in p.keys THEN p[key] ELSE default

\* dict.get("name"): the name, or "" (falsy like None) when the key is absent.
GetName(p) == IF "name" \in p.keys THEN p.name ELSE ""

\* ------------------------------------------------------------- validation

\* check_good_keys testing the presence of the amount key, not its truth.
check_good_keys_key_present(good) ==
    /\ good.keys \subseteq {"name", "amount"}
    /\ GetName(good) # ""
    /\ "amount" \in good.keys =>
           /\ IsInt(good.amount)
           /\ ~(good.amount.v <= 0)

\* check_good_keys without its loop over the keys.
check_good_keys_any_key(good) ==
    /\ GetName(good) # ""
    /\ Truthy(Get(good, "amount", JNull)) =>
           /\ IsInt(good.amount)
           /\ ~(good.amount.v <= 0)

check_good_keys(good) ==
    /\ good.keys \subseteq {"name", "amount"}
    /\ GetName(good) # ""
    /\ Truthy(Get(good, "amount", JNull)) =>
           /\ IsInt(good.amount)
           /\ ~(good.amount.v <= 0)

\* check_sale_keys without its test of the price's sign.
check_sale_keys_any_price(sale) ==
    /\ sale.keys \subseteq {"name", "amount", "price"}
    /\ GetName(sale) # ""
    /\ Truthy(Get(sale, "amount", JNull)) =>
           /\ IsInt(sale.amount)
           /\ ~(sale.amount.v <= 0)
    /\ Truthy(Get(sale, "price", JNull)) => IsNum(sale.price)

check_sale_keys(sale) ==
    /\ sale.keys \subseteq {"name", "amount", "price"}
    /\ GetName(sale) # ""
    /\ Truthy(Get(sale, "amount", JNull)) =>
           /\ IsInt(sale.amount)
           /\ ~(sale.amount.v <= 0)
    /\ Truthy(Get(sale, "price", JNull)) =>
           /\ IsNum(sale.price)
           /\ ~(Halves(sale.price) <= 0)

\* ------------------------------------------------- str(float), float(str)

DigitChars == <<"0", "1", "2", "3", "4", "5", "6", "7", "8", "9">>

DigitVal(c) == (CHOOSE i \in 1..10 : DigitChars[i] = c) - 1

RECURSIVE Digits(_)
\* The decimal digits of a natural number, most significant first.
Digits(n) == IF n < 10 THEN <<DigitChars[n + 1]>>
             ELSE Append(Digits(n \div 10), DigitChars[(n % 10) + 1])

\* str(x) of a float of h halves: "7.5", "4.0", "-0.5".
FloatStr(h) ==
    LET a == IF h < 0 THEN -h ELSE h
    IN  (IF h < 0 THEN <<"-">> ELSE <<>>)
          \o Digits(a \div 2) \o <<".">> \o <<IF a % 2 = 0 THEN "0" ELSE "5">>

RECURSIVE DigitsVal(_)
DigitsVal(s) == IF s = <<>> THEN 0
                ELSE 10 * DigitsVal(SubSeq(s, 1, Len(s) - 1)) + DigitVal(s[Len(s)])

\* float(s) of such a string, in halves.
ParseFloat(s) ==
    LET t   == IF s[1] = "-" THEN Tail(s) ELSE s
        dot == CHOOSE i \in 1..Len(t) : t[i] = "."
        a   == 2 * DigitsVal(SubSeq(t, 1, dot - 1))
                 + (IF DigitVal(t[dot + 1]) = 5 THEN 1 ELSE 0)
    IN  IF s[1] = "-" THEN -a ELSE a

\* ------------------------------------------------------------------- store

\* The two tables.  Goods has no unique constraint on name; GlobalData.key
\* is unique.
EmptyDb == [goods |-> {}, data |-> {}]

GoodsRow(id, name, amount) == [id |-> id, name |-> name, amount |-> amount]

DataRow(key, value) == [key |-> key, value |-> value]

RECURSIVE SetMax(_)
SetMax(S) == IF S = {} THEN 0
             ELSE LET x == CHOOSE x \in S : TRUE
                      m == SetMax(S \ {x})
                  IN  IF x > m THEN x ELSE m

\* SQLite's rowid for an INTEGER PRIMARY KEY: one more than the largest.
NextId(image) == SetMax({g.id : g \in image.goods}) + 1

\* select(Goods).where(Goods.name == name)
FindGoods(image, name) == {g \in image.goods : g.name = name}

\* select(GlobalData).where(GlobalData.key == "total_sales")
FindSales(image) == {d \in image.data : d.key = "total_sales"}

\* A statement a flush emits.
Write(w, id, name, amount, value) ==
    [w |-> w, id |-> id, name |-> name, amount |-> amount, value |-> value]

\* Whether the store takes the statement: an UPDATE or DELETE must match its
\* row, an INSERT into GlobalData must keep key unique.
WriteOk(image, w) ==
    CASE w.w = "insert_good" -> TRUE
      [] w.w = "update_good" -> \E g \in image.goods : g.id = w.id
      [] w.w = "delete_good" -> \E g \in image.goods : g.id = w.id
      [] w.w = "insert_data" -> FindSales(image) = {}
      [] w.w = "update_data" -> FindSales(image) # {}

Apply(image, w) ==
    CASE w.w = "insert_good" ->
           [image EXCEPT !.goods = @ \cup {GoodsRow(NextId(image), w.name, w.amount)}]
      [] w.w = "update_good" ->
           [image EXCEPT !.goods =
               {IF g.id = w.id THEN [g EXCEPT !.amount = w.amount] ELSE g : g \in @}]
      [] w.w = "delete_good" ->
           [image EXCEPT !.goods = {g \in @ : g.id # w.id}]
      [] w.w = "insert_data" ->
           [image EXCEPT !.data = @ \cup {DataRow("total_sales", w.value)}]
      [] w.w = "update_data" ->
           [image EXCEPT !.data =
               {IF d.key = "total_sales" THEN [d EXCEPT !.value = w.value] ELSE d : d \in @}]

\* ---------------------------------------------------------------- queries

\* get_stock: the amount of the good, 0 for an unknown name.  one_or_none()
\* raises on several rows: status 500.
get_stock(image, name) ==
    LET rows == FindGoods(image, name)
    IN  IF Cardinality(rows) > 1 THEN [status |-> 500, body |-> JNull]
        ELSE IF rows # {} THEN [status |-> 200, body |-> (CHOOSE g \in rows : TRUE).amount]
        ELSE [status |-> 200, body |-> JInt(0)]

\* The position of a name in ascending order.
Rank(name) == CHOOSE i \in 1..Len(NameSeq) : NameSeq[i] = name

RECURSIVE RowsById(_)
\* session.exec(select(Goods)).all(): the rows in rowid order.
RowsById(S) ==
    IF S = {} THEN <<>>
    ELSE LET g == CHOOSE g \in S : \A h \in S : g.id <= h.id
         IN  <<g>> \o RowsById(S \ {g})

\* The rows left in the order read.
InsertUnsorted(sorted, g) == Append(sorted, g)

\* Insert g after the last element whose name is not greater (a stable sort).
InsertSorted(sorted, g) ==
    LET k == Cardinality({i \in 1..Len(sorted) : Rank(sorted[i].name) <= Rank(g.name)})
    IN  SubSeq(sorted, 1, k) \o <<g>> \o SubSeq(sorted, k + 1, Len(sorted))

RECURSIVE SortedByName(_)
\* sorted(goods, key=lambda good: good.name)
SortedByName(rows) ==
    IF rows = <<>> THEN <<>>
    ELSE InsertSorted(SortedByName(SubSeq(rows, 1, Len(rows) - 1)), rows[Len(rows)])

\* return_message[good.name] = good.amount: a dict keeps the place of a
\* key's first insertion and the value of its last.
DictSet(msg, name, amount) ==
    IF \E i \in 1..Len(msg) : msg[i][1] = name
    THEN [i \in 1..Len(msg) |-> IF msg[i][1] = name THEN <<name, amount>> ELSE msg[i]]
    ELSE Append(msg, <<name, amount>>)

RECURSIVE ListFold(_)
ListFold(sorted) ==
    IF sorted = <<>> THEN <<>>
    ELSE LET msg  == ListFold(SubSeq(sorted, 1, Len(sorted) - 1))
             good == sorted[Len(sorted)]
         IN  IF Truthy(good.amount) THEN DictSet(msg, good.name, good.amount) ELSE msg

\* get_stocks: the listing, a sequence of <<name, amount>> pairs.
get_stocks(image) == ListFold(SortedByName(RowsById(image.goods)))

\* get_total_sales, in halves.
get_total_sales(image) ==
    LET sales == FindSales(image)
    IN  IF sales # {} THEN ParseFloat((CHOOSE d \in sales : TRUE).value) ELSE 0

\* get_sales: round(total, 2), in hundredths.
get_sales(image) == get_total_sales(image) * 50

\* ------------------------------------------------------------------- state

VARIABLES
    db,        \* the committed content of database.db
    tx,        \* the writing transaction's uncommitted image of it
    writer,    \* the slot holding SQLite's write lock, or None
    running,   \* the slot whose coroutine holds the event loop, or None
    pc,        \* per slot: "idle", "json" (suspended at await request.json()),
               \* "flush" (inside session.commit()), "done" (answered)
    req,       \* per slot: the request, [op, body]
    res,       \* per slot: the status answered; 0 none, -1 connection lost
    sess,      \* per slot: the session's statements still to flush, the
               \* number flushed, and the times the session block was entered
    reply,     \* the answer of the query just served
    net,       \* per name: upserted minus sold since the last clearStock
    credited,  \* the sum of the values of the sells committed, in halves
    race,      \* the ledger as it was when a request (on name) arrived while
               \* another (on other) was suspended at await request.json()
    hdr,       \* the Authorization header of the last GET /secret
    authOut,   \* its outcome: the status and the challenge sent
    history    \* of the GET /secret requests of one client: the first header
               \* accepted and the stock of the first good then, whether a
               \* challenge followed it, and the nonces sent in challenges

vars == <<db, tx, writer, running, pc, req, res, sess, reply, net, credited, race,
          hdr, authOut, history>>

authVars == <<hdr, authOut, history>>

ledger == <<db, tx, writer, running, pc, req, res, sess, net, credited, race>>

ledgerVars == <<ledger, reply>>

\* A decoded JSON object; a field whose key is absent carries a filler.
Body(keys, name, amount, price) ==
    [keys |-> keys, name |-> name, amount |-> amount, price |-> price]

NoBody == Body({}, "", JNull, JNull)

NoReq == [op |-> "none", body |-> NoBody]

NoSess == [pending |-> {}, flushed |-> 0, tries |-> 0]

NoRace == [on |-> FALSE, name |-> "", rows |-> 0, stock |-> 0, sales |-> 0,
           other |-> "", stock2 |-> 0]

NoAuth == [status |-> 0, challenge |-> <<>>]

NoHistory == [accepted |-> FALSE, hdr |-> <<>>, stock |-> 0, challenged |-> FALSE,
              issued |-> {}]

NoReply == [q |-> "none", name |-> "", status |-> 0, stock |-> JNull, list |-> <<>>, sales |-> 0]

\* ------------------------------------------------------------ the requests

\* The amounts a request may carry: null, "", and the integers to MaxStock.
AmountValues == {JNull, JStr(0)} \cup {JInt(n) : n \in 0..MaxStock}

\* The prices a request may carry: 0.5 and 1 (an int).
PriceValues == {JFloat(1), JInt(1)}

StockBodies ==
    {Body({"name"}, n, JNull, JNull) : n \in Names}
      \cup {Body({"name", "amount"}, n, a, JNull) : n \in Names, a \in AmountValues}

SaleBodies ==
    {Body({"name"}, n, JNull, JNull) : n \in Names}
      \cup {Body({"name", "amount"}, n, a, JNull) : n \in Names, a \in AmountValues}
      \cup {Body({"name", "price"}, n, JNull, p) : n \in Names, p \in PriceValues}
      \cup {Body({"name", "amount", "price"}, n, a, p) :
                n \in Names, a \in AmountValues, p \in PriceValues}

\* Payloads with something wrong: a key that is not expected, no name, an
\* empty name, an amount that is negative or a non-empty string.
BadStockBodies ==
    {Body({"name", "foo"}, n, JNull, JNull) : n \in Names}
      \cup {Body({"amount"}, "", JInt(1), JNull), Body({"name"}, "", JNull, JNull),
            Body({"foo"}, "", JNull, JNull)}
      \cup {Body({"name", "amount"}, n, a, JNull) : n \in Names, a \in {JInt(-1), JStr(1)}}

\* The same for a sale, and a price that is negative or a non-empty string.
BadSaleBodies ==
    {Body({"name", "foo"}, n, JNull, JNull) : n \in Names}
      \cup {Body({"amount", "price"}, "", JInt(1), JFloat(1)), Body({"name"}, "", JNull, JNull)}
      \cup {Body({"name", "amount", "price"}, n, a, JFloat(1)) :
                n \in Names, a \in {JInt(-1), JStr(1)}}
      \cup {Body({"name", "price"}, n, JNull, p) : n \in Names, p \in {JFloat(-1), JStr(1)}}

\* good_to_add.get("amount", 1), good_to_sell.get("amount", 1)
GivenAmount(body) == Get(body, "amount", JInt(1))

\* good_to_sell.get("price", 0.0)
GivenPrice(body) == Get(body, "price", JFloat(0))

\* float(price) * amount_to_sell, in halves.
SaleAmount(body) == Halves(GivenPrice(body)) * GivenAmount(body).v

\* ------------------------------------------------------------ the handlers

\* What a handler does with the loop once it may run: answer at once
\* (status), or leave the statements of its session.commit() (status 0).
Answer(status) == [status |-> status, pending |-> {}]

Proceed(pending) == [status |-> 0, pending |-> pending]

\* The value the INTEGER column keeps for a bound parameter: SQLite turns a
\* whole float into an integer and keeps NULL and text as they are.
Stored(j) == IF j.k = "float" /\ j.v % 2 = 0 THEN JInt(j.v \div 2) ELSE j

\* The amount an INSERT stores: the column's default, 1, for None (the ORM
\* leaves a None attribute of a column with a default out of the INSERT).
InsertedAmount(given) == IF given = JNull THEN JInt(1) ELSE Stored(given)

\* The increment written as an assignment.
IncrementedAssign(amount, given) == Stored(given)

\* existing_good.amount += good_to_add.get("amount", 1)
Incremented(amount, given) == Stored(JFloat(Halves(amount) + Halves(given)))

\* The sufficiency check left out.
SufficientAlways(amount, amount_to_sell) == TRUE

\* The sufficiency check made strict.
SufficientStrict(amount, amount_to_sell) == Halves(amount) > Halves(amount_to_sell)

\* existing_good.amount >= amount_to_sell
Sufficient(amount, amount_to_sell) == Halves(amount) >= Halves(amount_to_sell)

\* existing_good.amount -= amount_to_sell
Decremented(amount, amount_to_sell) == Stored(JFloat(Halves(amount) - Halves(amount_to_sell)))

\* post_goods after request.json(): validation, the lookup, the increment or
\* the new row.  Adding to or with None or a str raises TypeError: 500.
post_goods(image, good) ==
    IF ~check_good_keys(good) THEN Answer(400)
    ELSE LET rows  == FindGoods(image, good.name)
             given == GivenAmount(good)
         IN  IF Cardinality(rows) > 1 THEN Answer(500)
             ELSE IF rows # {}
             THEN LET existing_good == CHOOSE g \in rows : TRUE
                  IN  IF ~(IsNum(existing_good.amount) /\ IsNum(given)) THEN Answer(500)
                      ELSE LET new == Incremented(existing_good.amount, given)
                           IN  Proceed(IF new = existing_good.amount THEN {}
                                       ELSE {Write("update_good", existing_good.id,
                                                   good.name, new, <<>>)})
             ELSE Proceed({Write("insert_good", 0, good.name, InsertedAmount(given), <<>>)})

\* update_total_sales: the statement that adds amount_to_add (halves) to the
\* total_sales row, or creates the row.  An unchanged value emits nothing.
update_total_sales(image, amount_to_add) ==
    LET sales == FindSales(image)
    IN  IF sales # {}
        THEN LET current_total == ParseFloat((CHOOSE d \in sales : TRUE).value)
                 new_total     == current_total + amount_to_add
             IN  IF FloatStr(new_total) = (CHOOSE d \in sales : TRUE).value THEN {}
                 ELSE {Write("update_data", 0, "", JNull, FloatStr(new_total))}
        ELSE {Write("insert_data", 0, "", JNull, FloatStr(amount_to_add))}

\* sell_goods after request.json().  Comparing with None or a str, and
\* float() of None or "", raise: 500.
sell_goods(image, sale) ==
    IF ~check_sale_keys(sale) THEN Answer(400)
    ELSE LET rows == FindGoods(image, sale.name)
             amount_to_sell == GivenAmount(sale)
         IN  IF Cardinality(rows) > 1 THEN Answer(500)
             ELSE IF rows = {} THEN Answer(400)
             ELSE LET existing_good == CHOOSE g \in rows : TRUE
                  IN  IF ~(IsNum(existing_good.amount) /\ IsNum(amount_to_sell)) THEN Answer(500)
                      ELSE IF Sufficient(existing_good.amount, amount_to_sell)
                      THEN IF ~IsNum(GivenPrice(sale)) THEN Answer(500)
                           ELSE LET new == Decremented(existing_good.amount, amount_to_sell)
                                IN  Proceed(update_total_sales(image, SaleAmount(sale))
                                      \cup (IF new = existing_good.amount THEN {}
                                            ELSE {Write("update_good", existing_good.id,
                                                        sale.name, new, <<>>)}))
                      ELSE Answer(400)

\* delete_goods resetting the sales total with the stock.
delete_goods_and_total(image) ==
    [status |-> 0,
     pending |-> {Write("delete_good", g.id, g.name, JNull, <<>>) : g \in image.goods}
                   \cup {Write("update_data", 0, "", JNull, FloatStr(0)) : d \in FindSales(image)}]

\* delete_goods: one DELETE per row read.
delete_goods(image) ==
    Proceed({Write("delete_good", g.id, g.name, JNull, <<>>) : g \in image.goods})

\* The status of a handler that returns normally.
SuccessStatus(op) == IF op = "post" THEN 201 ELSE 200

\* ------------------------------------------------------------- scheduling

\* Handlers run on threads: a handler never waits for the loop.
LoopFreeAlways == TRUE

\* The event loop is free: no coroutine is between two suspension points.
\* The handlers are `async def` and their session blocks hold no await.
LoopFree == running = None

InFlight(r) == pc[r] \in {"json", "flush"}

RECURSIVE Sum(_, _)
Sum(f, S) == IF S = {} THEN 0
             ELSE LET x == CHOOSE x \in S : TRUE IN f[x] + Sum(f, S \ {x})

\* What the requests in flight may still add to a good and to the total.
PendingAdd(name) ==
    Sum([r \in Slots |-> IF InFlight(r) /\ req[r].op = "post" /\ req[r].body.name = name
                            /\ IsInt(GivenAmount(req[r].body))
                         THEN GivenAmount(req[r].body).v ELSE 0], Slots)

PendingSales ==
    Sum([r \in Slots |-> IF InFlight(r) /\ req[r].op = "sell"
                         THEN SaleAmount(req[r].body) ELSE 0], Slots)

StockOf(image, name) ==
    Sum([g \in FindGoods(image, name) |-> IF IsInt(g.amount) THEN g.amount.v ELSE 0],
        FindGoods(image, name))

\* The bounds of the model: a request that would carry a good over MaxStock
\* or the total over MaxSalesH is not sent.
WithinBounds(op, body) ==
    CASE op = "post" ->
           StockOf(db, body.name) + PendingAdd(body.name)
             + (IF IsInt(GivenAmount(body)) THEN GivenAmount(body).v ELSE 0) <= MaxStock
      [] op = "sell" ->
           get_total_sales(db) + PendingSales + SaleAmount(body) <= MaxSalesH

\* ----------------------------------------------------------------- actions

Init ==
    /\ db = EmptyDb
    /\ tx = EmptyDb
    /\ writer = None
    /\ running = None
    /\ pc = [r \in Slots |-> "idle"]
    /\ req = [r \in Slots |-> NoReq]
    /\ res = [r \in Slots |-> 0]
    /\ sess = [r \in Slots |-> NoSess]
    /\ reply = NoReply
    /\ net = [n \in Names |-> 0]
    /\ credited = 0
    /\ race = NoRace
    /\ hdr = <<>>
    /\ authOut = NoAuth
    /\ history = NoHistory

\* The handler answers: the coroutine ends and leaves the loop.
Finish(r, status) ==
    /\ pc' = [pc EXCEPT ![r] = "done"]
    /\ res' = [res EXCEPT ![r] = status]
    /\ sess' = [sess EXCEPT ![r].pending = {}]
    /\ running' = None

\* The handler goes on, holding the loop, to session.commit().
Enter(r, pending) ==
    /\ pc' = [pc EXCEPT ![r] = "flush"]
    /\ sess' = [sess EXCEPT ![r] = [pending |-> pending, flushed |-> 0,
                                   tries |-> @.tries + 1]]
    /\ running' = r
    /\ UNCHANGED res

Step(r, plan) ==
    IF plan.status # 0 THEN Finish(r, plan.status) ELSE Enter(r, plan.pending)

\* A stock-add or a sale arrives; its handler starts and suspends at
\* await request.json().
Arrive(r, op, body) ==
    /\ pc[r] = "idle"
    /\ WithinBounds(op, body)
    /\ pc' = [pc EXCEPT ![r] = "json"]
    /\ req' = [req EXCEPT ![r] = [op |-> op, body |-> body]]
    /\ race' = IF \E s \in Slots \ {r} : pc[s] = "json"
               THEN LET other == (CHOOSE s \in Slots \ {r} : pc[s] = "json")
                    IN  [on |-> TRUE, name |-> body.name,
                         rows |-> Cardinality(FindGoods(db, body.name)),
                         stock |-> StockOf(db, body.name), sales |-> get_total_sales(db),
                         other |-> req[other].body.name,
                         stock2 |-> StockOf(db, req[other].body.name)]
               ELSE race
    /\ reply' = NoReply
    /\ UNCHANGED authVars
    /\ UNCHANGED <<db, tx, writer, running, res, sess, net, credited>>

\* post_goods resumes with the decoded body and runs to its commit.
PostBegin(r) ==
    /\ pc[r] = "json"
    /\ req[r].op = "post"
    /\ LoopFree
    /\ Step(r, post_goods(db, req[r].body))
    /\ reply' = NoReply
    /\ UNCHANGED authVars
    /\ UNCHANGED <<db, tx, writer, req, net, credited, race>>

\* sell_goods resumes with the decoded body and runs to its commit.
SellBegin(r) ==
    /\ pc[r] = "json"
    /\ req[r].op = "sell"
    /\ LoopFree
    /\ Step(r, sell_goods(db, req[r].body))
    /\ reply' = NoReply
    /\ UNCHANGED authVars
    /\ UNCHANGED <<db, tx, writer, req, net, credited, race>>

\* delete_goods has no body to await: it runs from its arrival.
ClearBegin(r) ==
    /\ pc[r] = "idle"
    /\ LoopFree
    /\ req' = [req EXCEPT ![r] = [op |-> "clear", body |-> NoBody]]
    /\ Step(r, delete_goods(db))
    /\ reply' = NoReply
    /\ UNCHANGED authVars
    /\ UNCHANGED <<db, tx, writer, net, credited, race>>

\* Every statement committed as it is flushed.
DurableAtOnce(committed, image) == image

\* What of a flushed statement is in the database before the COMMIT: nothing,
\* the statements of one session.commit() share one transaction.
Durable(committed, image) == committed

\* session.commit() flushes one statement into its transaction, taking
\* SQLite's write lock with the first.  A statement the store refuses raises:
\* the session rolls back and the request ends in 500.
Flush(r) ==
    /\ pc[r] = "flush"
    /\ writer \in {None, r}
    /\ \E w \in sess[r].pending :
         LET image == IF writer = r THEN tx ELSE db
         IN  IF WriteOk(image, w)
             THEN /\ tx' = Apply(image, w)
                  /\ writer' = r
                  /\ sess' = [sess EXCEPT ![r].pending = @ \ {w},
                                          ![r].flushed = @ + 1]
                  /\ db' = Durable(db, Apply(image, w))
                  /\ UNCHANGED <<pc, res, running>>
             ELSE /\ tx' = EmptyDb
                  /\ writer' = None
                  /\ Finish(r, 500)
                  /\ UNCHANGED db
    /\ reply' = NoReply
    /\ UNCHANGED authVars
    /\ UNCHANGED <<req, net, credited, race>>

\* The tallies of what the committed requests asked for.
Tally(r) ==
    LET op == req[r].op
        body == req[r].body
    IN  /\ net' = CASE op = "post" ->
                         [net EXCEPT ![body.name] =
                             @ + (IF IsInt(GivenAmount(body)) THEN GivenAmount(body).v
                                  ELSE IF GivenAmount(body) = JNull THEN 1 ELSE 0)]
                    [] op = "sell" ->
                         [net EXCEPT ![body.name] =
                             @ - (IF IsInt(GivenAmount(body)) THEN GivenAmount(body).v ELSE 0)]
                    [] op = "clear" -> [n \in Names |-> 0]
        /\ credited' = IF op = "sell" THEN credited + SaleAmount(body) ELSE credited

\* session.commit() commits: the transaction's image becomes the database,
\* and the handler returns its response.
Commit(r) ==
    /\ pc[r] = "flush"
    /\ sess[r].pending = {}
    /\ db' = IF writer = r THEN tx ELSE db
    /\ tx' = IF writer = r THEN EmptyDb ELSE tx
    /\ writer' = IF writer = r THEN None ELSE writer
    /\ Finish(r, SuccessStatus(req[r].op))
    /\ Tally(r)
    /\ reply' = NoReply
    /\ UNCHANGED authVars
    /\ UNCHANGED <<req, race>>

\* The store fails a statement or the commit (disk, lock): the exception
\* leaves the `with Session` block, which rolls back; the request ends in 500.
StoreFail(r) ==
    /\ pc[r] = "flush"
    /\ tx' = IF writer = r THEN EmptyDb ELSE tx
    /\ writer' = IF writer = r THEN None ELSE writer
    /\ Finish(r, 500)
    /\ reply' = NoReply
    /\ UNCHANGED authVars
    /\ UNCHANGED <<db, req, net, credited, race>>

\* The process dies and is started again: every request in flight loses its
\* connection, the open transaction is rolled back by SQLite's journal, and
\* lifespan's create_all finds the tables in place.
Crash ==
    /\ \E r \in Slots : InFlight(r)
    /\ pc' = [r \in Slots |-> IF InFlight(r) THEN "done" ELSE pc[r]]
    /\ res' = [r \in Slots |-> IF InFlight(r) THEN -1 ELSE res[r]]
    /\ sess' = [r \in Slots |-> [sess[r] EXCEPT !.pending = {}]]
    /\ tx' = EmptyDb
    /\ writer' = None
    /\ running' = None
    /\ race' = NoRace
    /\ reply' = NoReply
    /\ UNCHANGED authVars
    /\ UNCHANGED <<db, req, net, credited>>

\* The client has its answer; the connection serves its next request.
Return(r) ==
    /\ pc[r] = "done"
    /\ pc' = [pc EXCEPT ![r] = "idle"]
    /\ req' = [req EXCEPT ![r] = NoReq]
    /\ res' = [res EXCEPT ![r] = 0]
    /\ sess' = [sess EXCEPT ![r] = NoSess]
    /\ race' = NoRace
    /\ reply' = NoReply
    /\ UNCHANGED authVars
    /\ UNCHANGED <<db, tx, writer, running, net, credited>>

\* GET /v1/stocks/{name}
GetStock(name) ==
    /\ LoopFree
    /\ reply' = [NoReply EXCEPT !.q = "stock", !.name = name,
                                !.status = get_stock(db, name).status,
                                !.stock = get_stock(db, name).body]
    /\ UNCHANGED ledger
    /\ UNCHANGED authVars

\* GET /v1/stocks
GetStocks ==
    /\ LoopFree
    /\ reply' = [NoReply EXCEPT !.q = "list", !.status = 200, !.list = get_stocks(db)]
    /\ UNCHANGED ledger
    /\ UNCHANGED authVars

\* GET /v1/sales
GetSales ==
    /\ LoopFree
    /\ reply' = [NoReply EXCEPT !.q = "sales", !.status = 200, !.sales = get_sales(db)]
    /\ UNCHANGED ledger
    /\ UNCHANGED authVars

\* The requests of concurrent clients: whole amounts and one price, so that
\* two of them can be in flight together.
ConcStockBodies ==
    {Body({"name"}, n, JNull, JNull) : n \in Names}
      \cup {Body({"name", "amount"}, n, JInt(MaxStock), JNull) : n \in Names}

ConcSaleBodies ==
    {Body({"name", "price"}, n, JNull, JFloat(1)) : n \in Names}
      \cup {Body({"name", "amount", "price"}, n, JInt(MaxStock), JFloat(1)) : n \in Names}

\* Two connections, requests in flight together.
Next ==
    \/ \E r \in Slots, body \in ConcStockBodies : Arrive(r, "post", body)
    \/ \E r \in Slots, body \in ConcSaleBodies : Arrive(r, "sell", body)
    \/ \E r \in Slots : PostBegin(r)
    \/ \E r \in Slots : SellBegin(r)
    \/ \E r \in Slots : ClearBegin(r)
    \/ \E r \in Slots : Flush(r)
    \/ \E r \in Slots : Commit(r)
    \/ \E r \in Slots : StoreFail(r)
    \/ \E r \in Slots : Return(r)
    \/ Crash

Spec == Init /\ [][Next]_vars

\* One connection, one request at a time, every body of StockBodies and
\* SaleBodies and the bad ones.
NextSeq ==
    \/ \E body \in StockBodies \cup BadStockBodies : Arrive("c1", "post", body)
    \/ \E body \in SaleBodies \cup BadSaleBodies : Arrive("c1", "sell", body)
    \/ PostBegin("c1")
    \/ SellBegin("c1")
    \/ ClearBegin("c1")
    \/ Flush("c1")
    \/ Commit("c1")
    \/ StoreFail("c1")
    \/ Return("c1")
    \/ Crash
    \/ \E name \in Names : GetStock(name)
    \/ GetStocks
    \/ GetSales

SpecSeq == Init /\ [][NextSeq]_vars

\* ---------------------------------------------------------- authenticator

\* A string is a sequence of atoms.  An atom is a piece of text t; the atom
\* "md5" is the hex digest of the string s, the atom "expr" is a Python
\* expression, free of spaces, commas and "=", that evaluates to the string
\* s, and the atom "rand" is such an expression that evaluates to s or to ""
\* as a call of the imported secrets module falls: ("..."*secrets.randbelow(2)).
W(t) == [t |-> t, s |-> <<>>]

Expr(value) == [t |-> "expr", s |-> value]

Rand(value) == [t |-> "rand", s |-> value]

Quote == W("quote")

Comma == W(",")

Equals == W("=")

Colon == W(":")

\* USERS = {"tinikov": "SU(3)group"}
tinikov == <<W("tinikov")>>

USERS == [u \in {tinikov} |-> <<W("SU(3)group")>>]

realm == <<W("tinikov-webserver")>>

\* hashlib.md5(data.encode()).hexdigest()
calculate_md5(data) == <<[t |-> "md5", s |-> data]>>

calculate_ha1(username, realm_, password) ==
    calculate_md5(username \o <<Colon>> \o realm_ \o <<Colon>> \o password)

calculate_ha2(method, uri) == calculate_md5(method \o <<Colon>> \o uri)

calculate_response(ha1, nonce, ha2) ==
    calculate_md5(ha1 \o <<Colon>> \o nonce \o <<Colon>> \o ha2)

\* str.replace(",", "")
RemoveCommas(str) == SelectSeq(str, LAMBDA a : a # Comma)

\* eval(str): a quoted literal is its text, an expression is its value, coin
\* being what secrets.randbelow(2) returns to it; anything else (an empty
\* string, a bare word, an unbalanced quote) raises.
Eval(str, coin) ==
    IF Len(str) >= 2 /\ str[1] = Quote /\ str[Len(str)] = Quote
         /\ \A i \in 2..(Len(str) - 1) : str[i] # Quote /\ str[i].t \notin {"expr", "rand"}
    THEN [ok |-> TRUE, val |-> SubSeq(str, 2, Len(str) - 1)]
    ELSE IF Len(str) = 1 /\ str[1].t = "expr"
    THEN [ok |-> TRUE, val |-> str[1].s]
    ELSE IF Len(str) = 1 /\ str[1].t = "rand"
    THEN [ok |-> TRUE, val |-> IF coin = 1 THEN str[1].s ELSE <<>>]
    ELSE [ok |-> FALSE, val |-> <<>>]

trim_str(str, coin) == Eval(RemoveCommas(str), coin)

\* i.startswith(key + "=")
StartsWith(i, key) == Len(i) >= 2 /\ i[1] = W(key) /\ i[2] = Equals

\* i.split("=")[1]: what stands between the first "=" and the next.
SplitEq1(i) ==
    LET rest == SubSeq(i, 3, Len(i))
        stop == {k \in 1..Len(rest) : rest[k] = Equals}
    IN  IF stop = {} THEN rest
        ELSE SubSeq(rest, 1, (CHOOSE k \in stop : \A m \in stop : k <= m) - 1)

\* One turn of the loop over auth_header.split(" ").
ParseToken(acc, i, coin) ==
    LET v == trim_str(SplitEq1(i), coin)
    IN  IF acc.raised THEN acc
        ELSE IF StartsWith(i, "username")
        THEN IF v.ok THEN [acc EXCEPT !.username = v.val] ELSE [acc EXCEPT !.raised = TRUE]
        ELSE IF StartsWith(i, "nonce")
        THEN IF v.ok THEN [acc EXCEPT !.returned_nonce = v.val] ELSE [acc EXCEPT !.raised = TRUE]
        ELSE IF StartsWith(i, "response")
        THEN IF v.ok THEN [acc EXCEPT !.returned_response = v.val]
             ELSE [acc EXCEPT !.raised = TRUE]
        ELSE acc

RECURSIVE ParseHeader(_, _)
ParseHeader(tokens, coin) ==
    IF tokens = <<>>
    THEN [username |-> <<>>, returned_nonce |-> <<>>, returned_response |-> <<>>,
          raised |-> FALSE]
    ELSE ParseToken(ParseHeader(SubSeq(tokens, 1, Len(tokens) - 1), coin),
                    tokens[Len(tokens)], coin)

\* GET /secret: the method and the path of the one protected route.
Method == <<W("GET")>>

Path == <<W("/secret")>>

\* auth: 200 SUCCESS, 401 with a challenge, or 500 when trim_str raises.  An
\* absent and an empty header are the header of no tokens.
auth(auth_header, coin) ==
    IF auth_header = <<>> THEN 401
    ELSE LET p == ParseHeader(auth_header, coin)
         IN  IF p.raised THEN 500
             ELSE IF p.username \in DOMAIN USERS
             THEN LET password == USERS[p.username]
                      ha1 == calculate_ha1(p.username, realm, password)
                      ha2 == calculate_ha2(Method, Path)
                      expected_response == calculate_response(ha1, p.returned_nonce, ha2)
                  IN  IF p.returned_response = expected_response THEN 200 ELSE 401
             ELSE 401

\* f'Digest realm="{realm}",nonce="{nonce}"'
Challenge(nonce) ==
    <<W("Digest "), W("realm"), Equals, Quote>> \o realm
      \o <<Quote, Comma, W("nonce"), Equals, Quote>> \o nonce \o <<Quote>>

\* The values secrets.token_hex(16) may return.
NonceSeq == <<"n1", "n2">>

Nonces == {<<W(NonceSeq[i])>> : i \in 1..Len(NonceSeq)}

\* The response a client that knows the secret computes.
ClientResponse(username, password, nonce) ==
    calculate_response(calculate_ha1(username, realm, password), nonce,
                       calculate_ha2(Method, Path))

Quoted(str) == <<Quote>> \o str \o <<Quote>>

Token(key, value) == <<W(key), Equals>> \o value

\* The username, nonce and response tokens the clients send: quoted, with
\* or without the separating comma, bare, and, for the response, an
\* expression over the server's own functions and USERS.
UsernameValues ==
    {Quoted(tinikov) \o <<Comma>>, Quoted(tinikov),
     Quoted(<<W("mallory")>>) \o <<Comma>>, tinikov}

NonceValues ==
    {Quoted(n) \o <<Comma>> : n \in Nonces} \cup {<<W(NonceSeq[1])>>}

ResponseValues ==
    {Quoted(ClientResponse(tinikov, USERS[tinikov], n)) : n \in Nonces \cup {<<>>}}
      \cup {Quoted(ClientResponse(tinikov, <<W("guess")>>, n)) : n \in Nonces}
      \cup {<<Expr(ClientResponse(tinikov, USERS[tinikov], n))>> : n \in Nonces}

Optional(key, values) == {<<>>} \cup {<<Token(key, v)>> : v \in values}

Headers ==
    {<<>>} \cup
    {<<<<W("Digest")>>>> \o u \o n \o r :
        u \in Optional("username", UsernameValues),
        n \in Optional("nonce", NonceValues),
        r \in Optional("response", ResponseValues)}

\* GET /secret with the header: the outcome, with a fresh nonce in the
\* challenge of a 401.
Serve(auth_header, nonce, coin) ==
    /\ LoopFree
    /\ hdr' = auth_header
    /\ authOut' = [status |-> auth(auth_header, coin),
                   challenge |-> IF auth(auth_header, coin) = 401 THEN Challenge(nonce)
                                 ELSE <<>>]
    /\ UNCHANGED ledgerVars

\* A request of any client.
Auth(auth_header, nonce, coin) ==
    /\ Serve(auth_header, nonce, coin)
    /\ UNCHANGED history

\* A request of the client whose requests the history follows.
AuthFollowed(auth_header, nonce, coin) ==
    LET status == authOut'.status
        first  == ~history.accepted /\ status = 200
    IN  /\ Serve(auth_header, nonce, coin)
        /\ history' =
             [accepted   |-> history.accepted \/ status = 200,
              hdr        |-> IF first THEN auth_header ELSE history.hdr,
              stock      |-> IF first THEN StockOf(db, NameSeq[1]) ELSE history.stock,
              challenged |-> history.challenged \/ (history.accepted /\ status = 401),
              issued     |-> IF status = 401 THEN history.issued \cup {nonce}
                             ELSE history.issued]

\* What secrets.randbelow(2) may return.
Coins == {0, 1}

NextAuth == \E h \in Headers, nonce \in Nonces, coin \in Coins : Auth(h, nonce, coin)

SpecAuth == Init /\ [][NextAuth]_vars

\* The header of a client that knows the secret, over the nonce.
ClientHeader(password, nonce) ==
    <<<<W("Digest")>>,
      Token("username", Quoted(tinikov) \o <<Comma>>),
      Token("nonce", Quoted(nonce) \o <<Comma>>),
      Token("response", Quoted(ClientResponse(tinikov, password, nonce)))>>

\* The client's header with, for its username, an expression that draws on
\* secrets:  username=("tinikov"*secrets.randbelow(2))
DrawnHeader(nonce) ==
    <<<<W("Digest")>>,
      Token("username", <<Rand(tinikov)>>),
      Token("nonce", Quoted(nonce) \o <<Comma>>),
      Token("response", Quoted(ClientResponse(tinikov, USERS[tinikov], nonce)))>>

\* No header, the headers of the client over each nonce, one computed from a
\* guessed password, and one with the drawn username.
MixedHeaders ==
    {<<>>} \cup {ClientHeader(USERS[tinikov], n) : n \in Nonces}
      \cup {ClientHeader(<<W("guess")>>, <<W(NonceSeq[1])>>)}
      \cup {DrawnHeader(<<W(NonceSeq[1])>>)}

\* GET /secret among the stock-adds, sales and clearStocks of one connection
\* on the first good.
NextMixed ==
    \/ \E h \in MixedHeaders, nonce \in Nonces, coin \in Coins : AuthFollowed(h, nonce, coin)
    \/ Arrive("c1", "post", Body({"name"}, NameSeq[1], JNull, JNull))
    \/ Arrive("c1", "sell", Body({"name", "price"}, NameSeq[1], JNull, JFloat(1)))
    \/ PostBegin("c1")
    \/ SellBegin("c1")
    \/ ClearBegin("c1")
    \/ Flush("c1")
    \/ Commit("c1")
    \/ StoreFail("c1")
    \/ Return("c1")
    \/ Crash

SpecMixed == Init /\ [][NextMixed]_vars

\* ------------------------------------------------------------------ claims

\* The rows of d1 whose amount is smaller in d2.
Debits(d1, d2) ==
    {g \in d1.goods : \E h \in d2.goods :
        h.id = g.id /\ IsInt(g.amount) /\ IsInt(h.amount) /\ h.amount.v < g.amount.v}

AmountOf(image, id) == (CHOOSE h \in image.goods : h.id = id).amount

\* The step commits slot r's sell: one good debited by the amount sold, the
\* total credited with its value.
SellCommitted(r) ==
    LET body == req[r].body
        n    == GivenAmount(body).v
    IN  /\ req[r].op = "sell"
        /\ pc[r] = "flush"
        /\ pc'[r] = "done"
        /\ res'[r] = 200
        /\ \A g \in Debits(db, db') :
              g.name = body.name /\ AmountOf(db', g.id) = JInt(g.amount.v - n)
        /\ n > 0 => Debits(db, db') # {}
        /\ FindSales(db') # {}
        /\ get_total_sales(db') = get_total_sales(db) + SaleAmount(body)

\* C1: atomic sell.  No step of the system, a crash or a store failure
\* between the two statements of a sell included, changes the committed
\* database so that a good's amount is decremented without the matching
\* credit to total_sales, or total_sales is changed without the matching
\* decrement: both happen in the one step that commits a sell.
C1_AtomicSell ==
    [][(Debits(db, db') # {} \/ FindSales(db') # FindSales(db))
          => \E r \in Slots : SellCommitted(r)]_vars

\* A sell was interrupted, by a crash or a store failure, after the first of
\* its two statements.
C1_Witness ==
    \E r \in Slots : req[r].op = "sell" /\ res[r] \in {-1, 500} /\ sess[r].flushed = 1

\* The two requests in flight are sells that each ask for all the stock the
\* good had when they were both pending, and both were answered.
BothSoldAll ==
    /\ race.on
    /\ race.other = race.name
    /\ race.rows = 1
    /\ race.stock >= 1
    /\ \A r \in Slots :
          /\ pc[r] = "done"
          /\ req[r].op = "sell"
          /\ req[r].body.name = race.name
          /\ GivenAmount(req[r].body) = JInt(race.stock)
          /\ res[r] \in {200, 400}

\* C2: of two concurrent sells that each ask for the full remaining stock of
\* one good, exactly one succeeds and the other is refused, the good ends at
\* amount 0 and total_sales is up by the value of the one sale.
C2_OneSellWins ==
    BothSoldAll =>
        \E w \in Slots :
            /\ res[w] = 200
            /\ \A l \in Slots \ {w} : res[l] = 400
            /\ get_stock(db, race.name) = [status |-> 200, body |-> JInt(0)]
            /\ get_total_sales(db) = race.sales + SaleAmount(req[w].body)

C2_Witness ==
    /\ BothSoldAll
    /\ race.stock = 1
    /\ res["c1"] = 400
    /\ res["c2"] = 200

\* C3: every Good record has an integer amount >= 0.
C3_AmountNonNegative ==
    \A g \in db.goods : IsInt(g.amount) /\ g.amount.v >= 0

\* The sell of body must fail on image: no such good, or less of it than asked.
MustFail(image, body) ==
    \/ FindGoods(image, body.name) = {}
    \/ \E g \in FindGoods(image, body.name) :
          IsInt(g.amount) /\ IsInt(GivenAmount(body)) /\ g.amount.v < GivenAmount(body).v

\* C4: a valid sell of a good that does not exist, or of more than the good
\* has, is answered 400 and leaves the database, with every Good and the
\* total_sales row, as it was; the same sell, repeated, is refused again.  No
\* sell answered 400 changes the database.
C4_FailedSellNoEffect ==
    [][\A r \in Slots :
          /\ (/\ pc[r] = "json"
              /\ req[r].op = "sell"
              /\ pc'[r] # "json"
              /\ res'[r] # -1
              /\ check_sale_keys(req[r].body)
              /\ MustFail(db, req[r].body))
             => /\ pc'[r] = "done"
                /\ res'[r] = 400
                /\ db' = db
                /\ writer' = None
                /\ sess'[r].pending = {}
                /\ sell_goods(db', req[r].body) = Answer(400)
          /\ (req[r].op = "sell" /\ res[r] = 0 /\ res'[r] = 400) => db' = db]_vars

\* A valid sell of more than the good has was refused.
C4_Witness ==
    \E r \in Slots :
        /\ pc[r] = "done"
        /\ req[r].op = "sell"
        /\ res[r] = 400
        /\ check_sale_keys(req[r].body)
        /\ FindGoods(db, req[r].body.name) # {}
        /\ MustFail(db, req[r].body)

\* The sell of body can be served from image: one record of the good, with
\* an integer amount not below the integer amount asked, at a numeric price.
CanSell(image, body) ==
    /\ check_sale_keys(body)
    /\ IsInt(GivenAmount(body))
    /\ IsNum(GivenPrice(body))
    /\ \E g \in image.goods :
          /\ FindGoods(image, body.name) = {g}
          /\ IsInt(g.amount)
          /\ GivenAmount(body).v <= g.amount.v

\* C5: a sell of n (default 1) at price p (default 0) of a good with amount
\* s >= n goes on to its commit, and the commit sets the good's amount to
\* s - n, adds p * n to total_sales (creating it at p * n), and changes no
\* other good.
C5_SellEffect ==
    [][\A r \in Slots :
          /\ (/\ pc[r] = "json"
              /\ req[r].op = "sell"
              /\ pc'[r] # "json"
              /\ res'[r] # -1
              /\ CanSell(db, req[r].body))
             => pc'[r] = "flush"
          /\ (/\ pc[r] = "flush"
              /\ req[r].op = "sell"
              /\ res'[r] = 200)
             => LET body == req[r].body
                    g    == CHOOSE g \in FindGoods(db, body.name) : TRUE
                    n    == GivenAmount(body).v
                IN  /\ CanSell(db, body)
                    /\ db'.goods = (db.goods \ {g})
                                     \cup {GoodsRow(g.id, g.name, JInt(g.amount.v - n))}
                    /\ FindSales(db') =
                         {DataRow("total_sales",
                                  FloatStr(get_total_sales(db) + SaleAmount(body)))}]_vars

\* A sell of all that was left of a good succeeded and left it at 0.
C5_Witness ==
    \E r \in Slots :
        /\ pc[r] = "done"
        /\ req[r].op = "sell"
        /\ res[r] = 200
        /\ GivenAmount(req[r].body).v >= 1
        /\ get_stock(db, req[r].body.name).body = JInt(0)
        /\ credited > 0

\* C6: getStock of a name is the sum of the amounts upserted (1 when
\* omitted) minus the sum of the amounts sold since the last clearStock, and
\* 0 for a name never upserted, whenever the record holds a number.
C6_StockAccumulates ==
    \A name \in Names :
        LET stock == get_stock(db, name)
        IN  /\ stock.status = 200
            /\ IsInt(stock.body) => stock.body.v = net[name]
            /\ FindGoods(db, name) = {} => stock.body = JInt(0)

\* Upserts summed to MaxStock, part of which was then sold.
C6_Witness ==
    \E name \in Names :
        /\ get_stock(db, name).body = JInt(MaxStock - 1)
        /\ credited > 0
        /\ \E r \in Slots : pc[r] = "done" /\ req[r].op = "post" /\ res[r] = 201
                              /\ req[r].body.name = name

\* C7: the store holds at most one Good record per name, and a lookup by
\* name never finds several.
C7_UniqueNames ==
    /\ \A g, h \in db.goods : g.name = h.name => g = h
    /\ \A name \in Names : get_stock(db, name).status = 200

\* Two upserts of one unseen name were in flight together and both committed.
C7_Witness ==
    /\ race.on
    /\ race.other = race.name
    /\ race.rows = 0
    /\ \A r \in Slots : pc[r] = "done" /\ req[r].op = "post" /\ res[r] = 201
                           /\ req[r].body.name = race.name
    /\ Cardinality(FindGoods(db, race.name)) = 1

\* C8: the commit of clearStock leaves no Good record, so that getStock of
\* every name is 0 and listStock is empty, and leaves total_sales as it was.
C8_ClearKeepsSales ==
    [][\A r \in Slots :
          (req[r].op = "clear" /\ pc[r] = "flush" /\ res'[r] = 200)
             => /\ db'.goods = {}
                /\ \A name \in Names : get_stock(db', name) = [status |-> 200, body |-> JInt(0)]
                /\ get_stocks(db') = <<>>
                /\ FindSales(db') = FindSales(db)
                /\ get_sales(db') = get_sales(db)]_vars

\* clearStock deleted records while a sales total stood.
C8_Witness ==
    \E r \in Slots :
        /\ pc[r] = "done"
        /\ req[r].op = "clear"
        /\ res[r] = 200
        /\ sess[r].flushed >= 1
        /\ db.goods = {}
        /\ get_sales(db) > 0

\* C9: listStock is, in ascending order of name, each good whose amount is
\* non-zero (truthy) with its amount; a good with amount 0 is left out.
C9_ListSortedNonZero ==
    LET list == get_stocks(db)
    IN  /\ \A i, j \in 1..Len(list) : i < j => Rank(list[i][1]) < Rank(list[j][1])
        /\ \A i \in 1..Len(list) :
              /\ Truthy(list[i][2])
              /\ \E g \in db.goods : g.name = list[i][1] /\ g.amount = list[i][2]
        /\ \A g \in db.goods :
              IF Truthy(g.amount)
              THEN \E i \in 1..Len(list) : list[i] = <<g.name, g.amount>>
              ELSE \A i \in 1..Len(list) : list[i][1] # g.name
        /\ reply.q = "list" => reply.list = list

\* Two goods are listed, the one created last first.
C9_Witness ==
    /\ reply.q = "list"
    /\ Len(reply.list) = 2
    /\ \E g, h \in db.goods : g.id < h.id /\ h.name = reply.list[1][1]

\* The text of the header's last token of the key, when it is a quoted
\* string, its separating comma dropped: the field as the protocol defines it.
FieldTokens(header, key) == {k \in 1..Len(header) : StartsWith(header[k], key)}

FieldText(header, key) ==
    LET k == CHOOSE k \in FieldTokens(header, key) : \A m \in FieldTokens(header, key) : m <= k
        v == SubSeq(header[k], 3, Len(header[k]))
    IN  IF Len(v) >= 1 /\ v[Len(v)] = Comma THEN SubSeq(v, 1, Len(v) - 1) ELSE v

IsQuoted(str) ==
    /\ Len(str) >= 2
    /\ str[1] = Quote
    /\ str[Len(str)] = Quote
    /\ \A i \in 2..(Len(str) - 1) : str[i] # Quote

\* The field's value: the text between the quotes; nothing when the key is
\* absent (the handler's own default).
HasField(header, key) ==
    FieldTokens(header, key) # {} /\ IsQuoted(FieldText(header, key))

Field(header, key) ==
    LET str == FieldText(header, key) IN SubSeq(str, 2, Len(str) - 1)

\* The header carries a username of the Credential Store and the response
\* the hash chain gives for it, the header's nonce and the request.
CarriesValidResponse(header) ==
    /\ header # <<>>
    /\ HasField(header, "username")
    /\ Field(header, "username") \in DOMAIN USERS
    /\ HasField(header, "response")
    /\ FieldTokens(header, "nonce") # {} => HasField(header, "nonce")
    /\ LET username == Field(header, "username")
           nonce == IF FieldTokens(header, "nonce") # {} THEN Field(header, "nonce") ELSE <<>>
       IN  Field(header, "response") =
             calculate_response(calculate_ha1(username, realm, USERS[username]), nonce,
                                calculate_ha2(Method, Path))

\* C10: the Authenticator accepts a request if and only if its header
\* carries a username of the Credential Store and the matching response.
C10_AcceptsIffResponseMatches ==
    authOut.status # 0 => (authOut.status = 200 <=> CarriesValidResponse(hdr))

\* C11: every request to GET /secret that is not accepted ends in 401 with a
\* challenge carrying the realm and a generated nonce; none ends otherwise.
C11_RejectionIsChallenge ==
    authOut.status \notin {0, 200} =>
        /\ authOut.status = 401
        /\ \E nonce \in Nonces : authOut.challenge = Challenge(nonce)

\* C12: a stock-add or a sale, whatever its decoded payload, is answered by
\* its handler with success (201, 200) or with the generic failure (400):
\* the step in which the handler takes the decoded payload up never ends the
\* request in an uncaught exception (500).
C12_NoUncaughtFault ==
    [][\A r \in Slots :
          (pc[r] = "json" /\ pc'[r] = "done" /\ res'[r] # -1)
             => res'[r] \in {SuccessStatus(req[r].op), 400}]_vars

\* C13: a stock-add or a sale that a store-level failure ends in 500 had its
\* session block run twice: the first failure is retried, not surfaced.
C13_StoreFailureRetried ==
    [][\A r \in Slots :
          (pc[r] = "flush" /\ req[r].op \in {"post", "sell"} /\ res'[r] = 500)
             => sess[r].tries = 2]_vars

\* The two requests in flight are sells of different goods, pending
\* together, and both were answered with success.
BothSoldApart ==
    /\ race.on
    /\ race.other # race.name
    /\ \A r \in Slots : pc[r] = "done" /\ req[r].op = "sell" /\ res[r] = 200
    /\ {req[r].body.name : r \in Slots} = {race.name, race.other}

\* C14: two concurrent sells of different goods, in whatever order their
\* handlers run, leave each good decremented by the amount sold of it and
\* total_sales at its prior value plus the values of both sales.
C14_SellsApartBothCredited ==
    BothSoldApart =>
        /\ \A r \in Slots :
              LET name  == req[r].body.name
                  prior == IF name = race.name THEN race.stock ELSE race.stock2
              IN  get_stock(db, name) =
                    [status |-> 200, body |-> JInt(prior - GivenAmount(req[r].body).v)]
        /\ get_total_sales(db) =
             race.sales + Sum([r \in Slots |-> SaleAmount(req[r].body)], Slots)

\* Both sells had a value and were credited to a total that stood before.
C14_Witness ==
    /\ BothSoldApart
    /\ \A r \in Slots : SaleAmount(req[r].body) > 0
    /\ race.sales > 0
    /\ get_total_sales(db) = MaxSalesH

\* The payload is one the Validation Layer is to reject: a key that is not
\* expected, a missing or empty name, an amount given that is not an integer
\* above 0, or (a sale) a price given that is not a number above 0.
Invalid(op, body) ==
    \/ ~(body.keys \subseteq (IF op = "post" THEN {"name", "amount"}
                               ELSE {"name", "amount", "price"}))
    \/ "name" \notin body.keys
    \/ body.name = ""
    \/ /\ "amount" \in body.keys
       /\ Truthy(body.amount)
       /\ ~(body.amount.k = "int" /\ body.amount.v > 0)
    \/ /\ op = "sell"
       /\ "price" \in body.keys
       /\ Truthy(body.price)
       /\ ~(body.price.k \in {"int", "float"} /\ body.price.v > 0)

\* C15: a stock-add or a sale whose payload is invalid is answered 400 by
\* the step that takes the payload up, without entering the session block:
\* the database, the open transaction and the write lock are as they were.
C15_RejectedNeverReachesLedger ==
    [][\A r \in Slots :
          (/\ pc[r] = "json"
           /\ pc'[r] # "json"
           /\ res'[r] # -1
           /\ Invalid(req[r].op, req[r].body))
             => /\ pc'[r] = "done"
                /\ res'[r] = 400
                /\ sess'[r] = NoSess
                /\ db' = db
                /\ tx' = tx
                /\ writer' = writer]_vars

\* A sale at a negative price of a good in stock was refused, a sales total
\* standing.
C15_Witness ==
    \E r \in Slots :
        /\ pc[r] = "done"
        /\ res[r] = 400
        /\ req[r].op = "sell"
        /\ req[r].body.price = JFloat(-1)
        /\ get_stock(db, req[r].body.name).body = JInt(MaxStock)
        /\ get_total_sales(db) > 0

\* validateStockPayload as the specification words it: every key is name or
\* amount, name is present and not empty, and amount is not given (absent,
\* or falsy: null, "", 0) or is an integer above 0.
Accepts(body) ==
    /\ body.keys \subseteq {"name", "amount"}
    /\ "name" \in body.keys
    /\ body.name # ""
    /\ \/ "amount" \notin body.keys
       \/ body.amount \in {JNull, JStr(0), JInt(0)}
       \/ body.amount.k = "int" /\ body.amount.v > 0

\* C16: a stock-add is refused by validation (400) if and only if its
\* payload is not one validateStockPayload accepts.
C16_ValidateStockPayload ==
    \A r \in Slots :
        (req[r].op = "post" /\ pc[r] \in {"flush", "done"} /\ res[r] # -1)
           => (res[r] = 400 <=> ~Accepts(req[r].body))

\* A payload of amount 0 was accepted and its stock-add served.
C16_Witness ==
    \E r \in Slots :
        /\ req[r].op = "post"
        /\ pc[r] = "done"
        /\ res[r] = 201
        /\ "amount" \in req[r].body.keys
        /\ req[r].body.amount = JInt(0)

\* The payload with its amount key left out.
Omitted(body) == [body EXCEPT !.keys = @ \ {"amount"}, !.amount = JNull]

\* C17: a stock-add or a sale whose payload has amount 0 is taken up as the
\* same request without the amount key is: the same answer, or the same
\* statements for the store (the amount 1 added or sold).
C17_ZeroAmountAsOmitted ==
    [][\A r \in Slots :
          (/\ pc[r] = "json"
           /\ pc'[r] # "json"
           /\ res'[r] # -1
           /\ "amount" \in req[r].body.keys
           /\ req[r].body.amount = JInt(0))
             => LET body == Omitted(req[r].body)
                    plan == IF req[r].op = "post" THEN post_goods(db, body)
                            ELSE sell_goods(db, body)
                IN  /\ res'[r] = plan.status
                    /\ sess'[r].pending = plan.pending]_vars

\* C19: no step of the system lowers total_sales, deletes or resets its
\* record once created, or changes it other than by committing a sale
\* answered with success.
C19_TotalSalesMonotone ==
    [][/\ get_total_sales(db') >= get_total_sales(db)
       /\ FindSales(db) # {} => FindSales(db') # {}
       /\ FindSales(db') # FindSales(db) =>
             \E r \in Slots : req[r].op = "sell" /\ pc[r] = "flush" /\ res'[r] = 200]_vars

\* The sales total is read at MaxSalesH after a clearStock that followed the
\* sales.
C19_Witness ==
    /\ reply.q = "sales"
    /\ reply.sales = get_sales(db)
    /\ get_total_sales(db) = MaxSalesH
    /\ \E r \in Slots : req[r].op = "clear" /\ pc[r] = "done" /\ res[r] = 200

\* C18: the decision of GET /secret depends on the request alone.  The
\* header that was accepted first is accepted whenever it is sent again,
\* whatever challenges, rejections and ledger operations came between; and a
\* header carrying the matching response is accepted whether or not its
\* nonce was ever sent in a challenge.
C18_AuthStateless ==
    /\ (history.accepted /\ authOut.status # 0 /\ hdr = history.hdr) => authOut.status = 200
    /\ (authOut.status # 0 /\ CarriesValidResponse(hdr)) => authOut.status = 200

====
